---- MODULE Spec2Model ----
(***************************************************************************)
(* Model of tools.py of fashion_assistant_bot: the multi-site product      *)
(* search (clean_url, clean_price, matches_filters, search_site,           *)
(* search_products) and the shipping estimator (estimate_shipping).        *)
(*                                                                         *)
(* Text is a sequence of one-character strings, so that strip, startswith  *)
(* and the regular-expression filters of the code act on characters.  A    *)
(* character that a string literal cannot hold (outside printable ASCII    *)
(* and \t \n \r \f) is written by its code point, as "U+00A0".  A price    *)
(* is the binary64 float that float() gives, written by its mantissa and   *)
(* binary exponent.  An Optional value is None or Some(v), so that None    *)
(* differs from every text.                                                *)
(***************************************************************************)
EXTENDS Integers, Sequences, FiniteSets, TLC

VARIABLES
    \* inputs shared by the calls: the filters argument
    filters,
    \* one call of search_site
    site, fetch, markup, pcSite, siteResult,
    \* one call of matches_filters
    product, pcFilter, matched,
    \* one call of search_products: what each site's fetch does and serves,
    \* the main thread's position, the futures of executor.map, the lists
    \* read so far, the merged list, the exception being propagated
    fetchOf, markupOf, pc, nsub, fut, futResult, startCount, firstDone,
    collected, all_results, products, exc, cancelIdx,
    \* one call of estimate_shipping: the clock (in ticks), the clock when
    \* the caller made target_date, the target_date argument, the result
    clock, madeAt, hasTarget, target, pcShip, shipResult

varsShip == <<clock, madeAt, hasTarget, target, pcShip, shipResult>>
varsSite == <<site, fetch, markup, pcSite, siteResult, product, pcFilter, matched>>
varsAgg == <<fetchOf, markupOf, pc, nsub, fut, futResult, startCount, firstDone,
             collected, all_results, products, exc, cancelIdx>>
vars == <<filters, varsSite, varsAgg, varsShip>>

(***************************************************************************)
(* Bounds of the model.                                                    *)
(***************************************************************************)
\* longest markup, in listing containers, drawn from the few-kinds samples
MaxContainers == 6
\* longest markup drawn from all the container samples
MaxListings == 2
\* most keys of a filter mapping
MaxFilterKeys == 2
\* clock ticks in a day
TicksPerDay == 3
\* a target_date lies at most this many days before or after the caller's clock
MaxTargetDays == 6
\* most ticks between the caller making target_date and the estimator
\* reading the clock
MaxElapsed == 3

(***************************************************************************)
(* Text helpers.                                                           *)
(***************************************************************************)
\* the decimal digits (Unicode category Nd) that \d matches and float()
\* parses, by value: DigitSets[v + 1] holds the digits of value v
DigitSets ==
    <<{"0", "U+0660", "U+06F0", "U+07C0", "U+0966", "U+09E6", "U+0A66",
        "U+0AE6", "U+0B66", "U+0BE6", "U+0C66", "U+0CE6", "U+0D66", "U+0DE6",
        "U+0E50", "U+0ED0", "U+0F20", "U+1040", "U+1090", "U+17E0", "U+1810",
        "U+1946", "U+19D0", "U+1A80", "U+1A90", "U+1B50", "U+1BB0", "U+1C40",
        "U+1C50", "U+A620", "U+A8D0", "U+A900", "U+A9D0", "U+A9F0", "U+AA50",
        "U+ABF0", "U+FF10", "U+104A0", "U+10D30", "U+11066", "U+110F0",
        "U+11136", "U+111D0", "U+112F0", "U+11450", "U+114D0", "U+11650",
        "U+116C0", "U+11730", "U+118E0", "U+11950", "U+11C50", "U+11D50",
        "U+11DA0", "U+16A60", "U+16AC0", "U+16B50", "U+1D7CE", "U+1D7D8",
        "U+1D7E2", "U+1D7EC", "U+1D7F6", "U+1E140", "U+1E2F0", "U+1E950",
        "U+1FBF0"},
      {"1", "U+0661", "U+06F1", "U+07C1", "U+0967", "U+09E7", "U+0A67",
        "U+0AE7", "U+0B67", "U+0BE7", "U+0C67", "U+0CE7", "U+0D67", "U+0DE7",
        "U+0E51", "U+0ED1", "U+0F21", "U+1041", "U+1091", "U+17E1", "U+1811",
        "U+1947", "U+19D1", "U+1A81", "U+1A91", "U+1B51", "U+1BB1", "U+1C41",
        "U+1C51", "U+A621", "U+A8D1", "U+A901", "U+A9D1", "U+A9F1", "U+AA51",
        "U+ABF1", "U+FF11", "U+104A1", "U+10D31", "U+11067", "U+110F1",
        "U+11137", "U+111D1", "U+112F1", "U+11451", "U+114D1", "U+11651",
        "U+116C1", "U+11731", "U+118E1", "U+11951", "U+11C51", "U+11D51",
        "U+11DA1", "U+16A61", "U+16AC1", "U+16B51", "U+1D7CF", "U+1D7D9",
        "U+1D7E3", "U+1D7ED", "U+1D7F7", "U+1E141", "U+1E2F1", "U+1E951",
        "U+1FBF1"},
      {"2", "U+0662", "U+06F2", "U+07C2", "U+0968", "U+09E8", "U+0A68",
        "U+0AE8", "U+0B68", "U+0BE8", "U+0C68", "U+0CE8", "U+0D68", "U+0DE8",
        "U+0E52", "U+0ED2", "U+0F22", "U+1042", "U+1092", "U+17E2", "U+1812",
        "U+1948", "U+19D2", "U+1A82", "U+1A92", "U+1B52", "U+1BB2", "U+1C42",
        "U+1C52", "U+A622", "U+A8D2", "U+A902", "U+A9D2", "U+A9F2", "U+AA52",
        "U+ABF2", "U+FF12", "U+104A2", "U+10D32", "U+11068", "U+110F2",
        "U+11138", "U+111D2", "U+112F2", "U+11452", "U+114D2", "U+11652",
        "U+116C2", "U+11732", "U+118E2", "U+11952", "U+11C52", "U+11D52",
        "U+11DA2", "U+16A62", "U+16AC2", "U+16B52", "U+1D7D0", "U+1D7DA",
        "U+1D7E4", "U+1D7EE", "U+1D7F8", "U+1E142", "U+1E2F2", "U+1E952",
        "U+1FBF2"},
      {"3", "U+0663", "U+06F3", "U+07C3", "U+0969", "U+09E9", "U+0A69",
        "U+0AE9", "U+0B69", "U+0BE9", "U+0C69", "U+0CE9", "U+0D69", "U+0DE9",
        "U+0E53", "U+0ED3", "U+0F23", "U+1043", "U+1093", "U+17E3", "U+1813",
        "U+1949", "U+19D3", "U+1A83", "U+1A93", "U+1B53", "U+1BB3", "U+1C43",
        "U+1C53", "U+A623", "U+A8D3", "U+A903", "U+A9D3", "U+A9F3", "U+AA53",
        "U+ABF3", "U+FF13", "U+104A3", "U+10D33", "U+11069", "U+110F3",
        "U+11139", "U+111D3", "U+112F3", "U+11453", "U+114D3", "U+11653",
        "U+116C3", "U+11733", "U+118E3", "U+11953", "U+11C53", "U+11D53",
        "U+11DA3", "U+16A63", "U+16AC3", "U+16B53", "U+1D7D1", "U+1D7DB",
        "U+1D7E5", "U+1D7EF", "U+1D7F9", "U+1E143", "U+1E2F3", "U+1E953",
        "U+1FBF3"},
      {"4", "U+0664", "U+06F4", "U+07C4", "U+096A", "U+09EA", "U+0A6A",
        "U+0AEA", "U+0B6A", "U+0BEA", "U+0C6A", "U+0CEA", "U+0D6A", "U+0DEA",
        "U+0E54", "U+0ED4", "U+0F24", "U+1044", "U+1094", "U+17E4", "U+1814",
        "U+194A", "U+19D4", "U+1A84", "U+1A94", "U+1B54", "U+1BB4", "U+1C44",
        "U+1C54", "U+A624", "U+A8D4", "U+A904", "U+A9D4", "U+A9F4", "U+AA54",
        "U+ABF4", "U+FF14", "U+104A4", "U+10D34", "U+1106A", "U+110F4",
        "U+1113A", "U+111D4", "U+112F4", "U+11454", "U+114D4", "U+11654",
        "U+116C4", "U+11734", "U+118E4", "U+11954", "U+11C54", "U+11D54",
        "U+11DA4", "U+16A64", "U+16AC4", "U+16B54", "U+1D7D2", "U+1D7DC",
        "U+1D7E6", "U+1D7F0", "U+1D7FA", "U+1E144", "U+1E2F4", "U+1E954",
        "U+1FBF4"},
      {"5", "U+0665", "U+06F5", "U+07C5", "U+096B", "U+09EB", "U+0A6B",
        "U+0AEB", "U+0B6B", "U+0BEB", "U+0C6B", "U+0CEB", "U+0D6B", "U+0DEB",
        "U+0E55", "U+0ED5", "U+0F25", "U+1045", "U+1095", "U+17E5", "U+1815",
        "U+194B", "U+19D5", "U+1A85", "U+1A95", "U+1B55", "U+1BB5", "U+1C45",
        "U+1C55", "U+A625", "U+A8D5", "U+A905", "U+A9D5", "U+A9F5", "U+AA55",
        "U+ABF5", "U+FF15", "U+104A5", "U+10D35", "U+1106B", "U+110F5",
        "U+1113B", "U+111D5", "U+112F5", "U+11455", "U+114D5", "U+11655",
        "U+116C5", "U+11735", "U+118E5", "U+11955", "U+11C55", "U+11D55",
        "U+11DA5", "U+16A65", "U+16AC5", "U+16B55", "U+1D7D3", "U+1D7DD",
        "U+1D7E7", "U+1D7F1", "U+1D7FB", "U+1E145", "U+1E2F5", "U+1E955",
        "U+1FBF5"},
      {"6", "U+0666", "U+06F6", "U+07C6", "U+096C", "U+09EC", "U+0A6C",
        "U+0AEC", "U+0B6C", "U+0BEC", "U+0C6C", "U+0CEC", "U+0D6C", "U+0DEC",
        "U+0E56", "U+0ED6", "U+0F26", "U+1046", "U+1096", "U+17E6", "U+1816",
        "U+194C", "U+19D6", "U+1A86", "U+1A96", "U+1B56", "U+1BB6", "U+1C46",
        "U+1C56", "U+A626", "U+A8D6", "U+A906", "U+A9D6", "U+A9F6", "U+AA56",
        "U+ABF6", "U+FF16", "U+104A6", "U+10D36", "U+1106C", "U+110F6",
        "U+1113C", "U+111D6", "U+112F6", "U+11456", "U+114D6", "U+11656",
        "U+116C6", "U+11736", "U+118E6", "U+11956", "U+11C56", "U+11D56",
        "U+11DA6", "U+16A66", "U+16AC6", "U+16B56", "U+1D7D4", "U+1D7DE",
        "U+1D7E8", "U+1D7F2", "U+1D7FC", "U+1E146", "U+1E2F6", "U+1E956",
        "U+1FBF6"},
      {"7", "U+0667", "U+06F7", "U+07C7", "U+096D", "U+09ED", "U+0A6D",
        "U+0AED", "U+0B6D", "U+0BED", "U+0C6D", "U+0CED", "U+0D6D", "U+0DED",
        "U+0E57", "U+0ED7", "U+0F27", "U+1047", "U+1097", "U+17E7", "U+1817",
        "U+194D", "U+19D7", "U+1A87", "U+1A97", "U+1B57", "U+1BB7", "U+1C47",
        "U+1C57", "U+A627", "U+A8D7", "U+A907", "U+A9D7", "U+A9F7", "U+AA57",
        "U+ABF7", "U+FF17", "U+104A7", "U+10D37", "U+1106D", "U+110F7",
        "U+1113D", "U+111D7", "U+112F7", "U+11457", "U+114D7", "U+11657",
        "U+116C7", "U+11737", "U+118E7", "U+11957", "U+11C57", "U+11D57",
        "U+11DA7", "U+16A67", "U+16AC7", "U+16B57", "U+1D7D5", "U+1D7DF",
        "U+1D7E9", "U+1D7F3", "U+1D7FD", "U+1E147", "U+1E2F7", "U+1E957",
        "U+1FBF7"},
      {"8", "U+0668", "U+06F8", "U+07C8", "U+096E", "U+09EE", "U+0A6E",
        "U+0AEE", "U+0B6E", "U+0BEE", "U+0C6E", "U+0CEE", "U+0D6E", "U+0DEE",
        "U+0E58", "U+0ED8", "U+0F28", "U+1048", "U+1098", "U+17E8", "U+1818",
        "U+194E", "U+19D8", "U+1A88", "U+1A98", "U+1B58", "U+1BB8", "U+1C48",
        "U+1C58", "U+A628", "U+A8D8", "U+A908", "U+A9D8", "U+A9F8", "U+AA58",
        "U+ABF8", "U+FF18", "U+104A8", "U+10D38", "U+1106E", "U+110F8",
        "U+1113E", "U+111D8", "U+112F8", "U+11458", "U+114D8", "U+11658",
        "U+116C8", "U+11738", "U+118E8", "U+11958", "U+11C58", "U+11D58",
        "U+11DA8", "U+16A68", "U+16AC8", "U+16B58", "U+1D7D6", "U+1D7E0",
        "U+1D7EA", "U+1D7F4", "U+1D7FE", "U+1E148", "U+1E2F8", "U+1E958",
        "U+1FBF8"},
      {"9", "U+0669", "U+06F9", "U+07C9", "U+096F", "U+09EF", "U+0A6F",
        "U+0AEF", "U+0B6F", "U+0BEF", "U+0C6F", "U+0CEF", "U+0D6F", "U+0DEF",
        "U+0E59", "U+0ED9", "U+0F29", "U+1049", "U+1099", "U+17E9", "U+1819",
        "U+194F", "U+19D9", "U+1A89", "U+1A99", "U+1B59", "U+1BB9", "U+1C49",
        "U+1C59", "U+A629", "U+A8D9", "U+A909", "U+A9D9", "U+A9F9", "U+AA59",
        "U+ABF9", "U+FF19", "U+104A9", "U+10D39", "U+1106F", "U+110F9",
        "U+1113F", "U+111D9", "U+112F9", "U+11459", "U+114D9", "U+11659",
        "U+116C9", "U+11739", "U+118E9", "U+11959", "U+11C59", "U+11D59",
        "U+11DA9", "U+16A69", "U+16AC9", "U+16B59", "U+1D7D7", "U+1D7E1",
        "U+1D7EB", "U+1D7F5", "U+1D7FF", "U+1E149", "U+1E2F9", "U+1E959",
        "U+1FBF9"} >>

Digits == UNION {DigitSets[v] : v \in 1..10}

DigitVal(c) == CHOOSE v \in 0..9 : c \in DigitSets[v + 1]

\* the characters str.strip() removes (str.isspace())
Whitespace ==
    {"\t", "\n", "U+000B", "\f", "\r", "U+001C", "U+001D", "U+001E", "U+001F",
     " ", "U+0085", "U+00A0", "U+1680", "U+2000", "U+2001", "U+2002",
     "U+2003", "U+2004", "U+2005", "U+2006", "U+2007", "U+2008", "U+2009",
     "U+200A", "U+2028", "U+2029", "U+202F", "U+205F", "U+3000"}

\* s from its first element outside `drop`
DropLeading(s, drop) ==
    LET kept == {i \in 1..Len(s) : s[i] \notin drop}
    IN IF kept = {} THEN <<>>
       ELSE SubSeq(s, CHOOSE i \in kept : \A j \in kept : i <= j, Len(s))

\* s up to its last element outside `drop`
DropTrailing(s, drop) ==
    LET kept == {i \in 1..Len(s) : s[i] \notin drop}
    IN IF kept = {} THEN <<>>
       ELSE SubSeq(s, 1, CHOOSE i \in kept : \A j \in kept : j <= i)

LStrip(s) == DropLeading(s, Whitespace)

RStrip(s) == DropTrailing(s, Whitespace)

\* str.strip()
Strip(s) == RStrip(LStrip(s))

\* str.startswith(p)
StartsWith(s, p) == Len(s) >= Len(p) /\ SubSeq(s, 1, Len(p)) = p

\* re.sub(r'[^...]', '', s): keep the characters of the set `keep`
KeepChars(s, keep) == SelectSeq(s, LAMBDA c : c \in keep)

RECURSIVE Pow10(_)
Pow10(n) == IF n = 0 THEN 1 ELSE 10 * Pow10(n - 1)

(***************************************************************************)
(* Whole numbers of any size, for the arithmetic of float() that no        *)
(* machine integer holds: sequences of digit values (base 10) or of limbs  *)
(* of six digits (base Base), most significant first.                      *)
(***************************************************************************)
StripLeadingZeros(ds) == DropLeading(ds, {0})

StripTrailingZeros(ds) == DropTrailing(ds, {0})

Base == Pow10(6)

\* the i-th digit (or limb) of a from the right
FromRight(a, i) == IF i <= Len(a) THEN a[Len(a) - i + 1] ELSE 0

\* the limbs of the number that the digits ds write
Limbs(ds) ==
    LET n == (Len(ds) + 5) \div 6
    IN SubSeq([j \in 1..n |->
                  LET lo == 6 * (n - j)
                  IN FromRight(ds, lo + 1) + 10 * FromRight(ds, lo + 2)
                     + 100 * FromRight(ds, lo + 3) + 1000 * FromRight(ds, lo + 4)
                     + 10000 * FromRight(ds, lo + 5) + 100000 * FromRight(ds, lo + 6)],
              1, n)

\* a * d in limbs, for d of 1..1024.  The carry into a limb is below d, so
\* it is looked up further right only where it can change the carry out.
Mul(a, d) ==
    LET n == Len(a)
        carry[i \in 0..n] ==
            IF i = 0 THEN 0
            ELSE LET t == FromRight(a, i) * d
                 IN IF (t % Base) + d <= Base THEN t \div Base
                    ELSE (t + carry[i - 1]) \div Base
        len == IF carry[n] = 0 THEN n ELSE n + 1
    IN SubSeq([j \in 1..len |->
                  IF j + n = len THEN carry[n]
                  ELSE (FromRight(a, len - j + 1) * d + carry[len - j]) % Base],
              1, len)

\* a * d^n
RECURSIVE Scale(_, _, _)
Scale(a, d, n) ==
    IF n = 0 THEN a
    ELSE IF n = 1 THEN Mul(a, d)
    ELSE CHOOSE r \in {Scale(h, d, n - (n \div 2)) : h \in {Scale(a, d, n \div 2)}} : TRUE

\* a * 2^n and a * 5^n
TimesPow2(a, n) ==
    CHOOSE r \in {Scale(h, 1024, n \div 10) : h \in {Mul(a, 2^(n % 10))}} : TRUE

TimesPow5(a, n) ==
    CHOOSE r \in {Scale(h, 625, n \div 4) : h \in {Mul(a, 5^(n % 4))}} : TRUE

\* the three lowest limbs of a \div 10^drop
Window(a, drop) ==
    LET s == drop \div 6
        r == drop % 6
    IN [t \in 1..3 |->
           (FromRight(a, s + 4 - t) \div Pow10(r))
           + (FromRight(a, s + 5 - t) % Pow10(r)) * Pow10(6 - r)]

\* a is no multiple of 10^drop
Sticky(a, drop) ==
    \/ \E i \in 1..(drop \div 6) : FromRight(a, i) # 0
    \/ FromRight(a, (drop \div 6) + 1) % Pow10(drop % 6) # 0

\* order of two sequences of one length
LexLess(a, b) ==
    \E i \in 1..Len(a) : a[i] < b[i] /\ \A j \in 1..(i - 1) : a[j] = b[j]

(***************************************************************************)
(* Floats: the binary64 values of Python.  A finite value that is not      *)
(* negative is [mant, exp], the value mant * 2^exp, with mant a whole      *)
(* number below 2^53 in three limbs and exp of -1074..971; mant is at      *)
(* least 2^52 unless exp = -1074 (a subnormal value, or zero), so that     *)
(* every value is written in one way.  The other values are Infinity, NaN  *)
(* and Minus(f), the negative of f.                                        *)
(***************************************************************************)
TwoPow52 == <<4503, 599627, 370496>>
TwoPow53 == <<9007, 199254, 740992>>
\* 2^54 .. 2^58
TwoPowers ==
    << <<18014, 398509, 481984>>, <<36028, 797018, 963968>>,
       <<72057, 594037, 927936>>, <<144115, 188075, 855872>>,
       <<288230, 376151, 711744>> >>

MinExp == 0 - 1074
MaxExp == 971

Zero == [mant |-> <<0, 0, 0>>, exp |-> MinExp]
Infinity == [inf |-> TRUE]
NaN == [nan |-> TRUE]
Minus(f) == [neg |-> f]

IsInf(p) == "inf" \in DOMAIN p
IsNaN(p) == "nan" \in DOMAIN p
IsNeg(p) == "neg" \in DOMAIN p

\* a < b for two values that are neither negative nor NaN
MagLess(a, b) ==
    IF IsInf(a) THEN FALSE
    ELSE IF IsInf(b) THEN TRUE
    ELSE a.exp < b.exp \/ (a.exp = b.exp /\ LexLess(a.mant, b.mant))

\* a < b, a == b and a <= b of Python: all false when a or b is NaN
PriceLess(a, b) ==
    IF IsNaN(a) \/ IsNaN(b) THEN FALSE
    ELSE IF IsNeg(a) THEN (IF IsNeg(b) THEN MagLess(b.neg, a.neg) ELSE TRUE)
    ELSE IF IsNeg(b) THEN FALSE
    ELSE MagLess(a, b)

PriceEq(a, b) == ~IsNaN(a) /\ a = b

PriceLeq(a, b) == PriceLess(a, b) \/ PriceEq(a, b)

\* a whole number L with L <= log2(v) < L + 6 for every v of
\* 10^(top-1) <= v < 10^top: 3.321928 < log2(10) < 3.321929
Log2Floor(top) ==
    IF top >= 1 THEN ((top - 1) * 3321928) \div 1000000
    ELSE 0 - (((1 - top) * 3321929 + 999999) \div 1000000)

\* t + 1 for a number of three limbs
Inc3(t) ==
    IF t[3] + 1 < Base THEN <<t[1], t[2], t[3] + 1>>
    ELSE IF t[2] + 1 < Base THEN <<t[1], t[2] + 1, 0>>
    ELSE <<t[1] + 1, 0, 0>>

\* the float nearest to (t + f) * 2^qc, ties to even, where t is a whole
\* number of three limbs, 0 <= f < 1 and f > 0 iff sticky; t has at least
\* 54 bits unless qc = MinExp - 1
RoundBits(t, sticky, qc) ==
    LET j == 1 + Cardinality({i \in 1..Len(TwoPowers) : ~LexLess(t, TwoPowers[i])})
        d == 2^j
        x2 == (t[1] % d) * Base + t[2]
        x3 == (x2 % d) * Base + t[3]
        quot == <<t[1] \div d, x2 \div d, x3 \div d>>
        rest == x3 % d
        up == rest > d \div 2
              \/ (rest = d \div 2 /\ (sticky \/ (x3 \div d) % 2 = 1))
        mant == IF up THEN Inc3(quot) ELSE quot
        exp == IF mant = TwoPow53 THEN qc + j + 1 ELSE qc + j
    IN IF exp > MaxExp THEN Infinity
       ELSE [mant |-> IF mant = TwoPow53 THEN TwoPow52 ELSE mant, exp |-> exp]

\* the float nearest to sig / 10^e, for digits sig without a leading zero
Nearest(sig, e) ==
    LET top == Len(sig) - e
        qc == IF Log2Floor(top) - 53 < MinExp - 1 THEN MinExp - 1
              ELSE Log2Floor(top) - 53
        shift == IF qc > 0 THEN e + qc ELSE e
        digits == IF shift < 0 THEN sig \o [i \in 1..(0 - shift) |-> 0] ELSE sig
        drop == IF shift < 0 THEN 0 ELSE shift
    IN IF sig = <<>> THEN Zero
       ELSE IF top > 310 THEN Infinity
       ELSE IF top < 0 - 325 THEN Zero
       ELSE CHOOSE r \in
                {RoundBits(w[1], w[2], qc) :
                    w \in {<<SubSeq(Window(numer, drop), 1, 3), Sticky(numer, drop)>> :
                              numer \in {IF qc > 0 THEN TimesPow5(limbs, qc)
                                         ELSE TimesPow2(limbs, 0 - qc) :
                                            limbs \in {Limbs(digits)}}}} : TRUE

\* the digits of a whole number that is not negative
IntDigits(n) == StripLeadingZeros([i \in 1..10 |-> (n \div Pow10(10 - i)) % 10])

\* float(n) for a whole number n
Whole(n) ==
    CHOOSE r \in {IF n < 0 THEN Minus(Nearest(ds, 0)) ELSE Nearest(ds, 0) :
                    ds \in {IntDigits(IF n < 0 THEN 0 - n ELSE n)}} : TRUE

\* float(s) for a string of digits and periods: a value, or ValueError
FloatOk(s) ==
    /\ Cardinality({i \in 1..Len(s) : s[i] = "."}) <= 1
    /\ \E i \in 1..Len(s) : s[i] \in Digits

FloatValue(s) ==
    LET dots == {i \in 1..Len(s) : s[i] = "."}
        frac == IF dots = {} THEN 0 ELSE Len(s) - (CHOOSE i \in dots : TRUE)
        text == KeepChars(s, Digits)
        lead == StripLeadingZeros([i \in 1..Len(text) |-> DigitVal(text[i])])
    IN CHOOSE r \in
           {Nearest(sig, frac - (Len(lead) - Len(sig))) :
               sig \in {StripTrailingZeros(lead)}} : TRUE

(***************************************************************************)
(* Program constants and tables.                                           *)
(***************************************************************************)
WEBSITES == <<"amazon.com", "walmart.com", "target.com", "ebay.com", "flipkart.com">>

Registry == {WEBSITES[i] : i \in 1..Len(WEBSITES)}

\* the keys of search_query_url_tag
search_query_url_tag == {"amazon.com", "walmart.com", "target.com", "ebay.com", "flipkart.com"}

\* the keys of selectors
selectors == {"amazon.com", "walmart.com"}

\* products[:5]
PerSiteCap == 5

HttpScheme == <<"h", "t", "t", "p", ":", "/", "/">>
HttpsScheme == <<"h", "t", "t", "p", "s", ":", "/", "/">>
HttpsWww == HttpsScheme \o <<"w", "w", "w", ".">>

\* an Optional value: None, or Some(v)
None == [none |-> TRUE, val |-> ""]
Some(v) == [none |-> FALSE, val |-> v]

(***************************************************************************)
(* clean_url: href is [has, text], has = FALSE for a missing attribute     *)
(* (url_elem.get('href') is None).  The site's domain is one piece.        *)
(***************************************************************************)
clean_url(href, s) ==
    IF ~href.has \/ href.text = <<>> THEN <<>>
    ELSE IF ~(StartsWith(href.text, HttpScheme) \/ StartsWith(href.text, HttpsScheme))
         THEN HttpsWww \o <<s>>
              \o (IF StartsWith(href.text, <<"/">>) THEN href.text ELSE <<"/">> \o href.text)
         ELSE href.text

(***************************************************************************)
(* clean_price: two re.sub passes, then float(); ValueError gives 0.0.     *)
(***************************************************************************)
\* [\d.,] and [\d.]
DigitsPeriodComma == Digits \cup {".", ","}
DigitsPeriod == Digits \cup {"."}

clean_price(price_str) ==
    LET pass1 == KeepChars(price_str, DigitsPeriodComma)
        pass2 == KeepChars(pass1, DigitsPeriod)
    IN IF FloatOk(pass2) THEN FloatValue(pass2) ELSE Zero

(***************************************************************************)
(* matches_filters: filters is [isNone, items]; items is the dict in       *)
(* insertion order.  The value of an item is a number (num: the int n, or  *)
(* the float f when the item has a field f) or else a text or None (s).    *)
(* A call returns a boolean or raises TypeError: the order comparisons of  *)
(* lines 61 and 63 raise when the value is no number, the != of lines 65   *)
(* and 67 compares values of any type.                                     *)
(***************************************************************************)
Returned(v) == [kind |-> "return", value |-> v, exc |-> None]
Raised(e) == [kind |-> "raise", value |-> <<>>, exc |-> Some(e)]

\* lines 61 and 63: float > value, float < value
ItemRaises(p, item) ==
    item.key \in {"max_price", "min_price"} /\ ~item.num

\* the number an item holds, as the comparison with a float takes it
Bound(item) == IF "f" \in DOMAIN item THEN item.f ELSE Whole(item.n)

ItemRejects(p, item) ==
    \/ item.key = "max_price" /\ PriceLess(Bound(item), p.price)
    \/ item.key = "min_price" /\ PriceLess(p.price, Bound(item))
    \/ item.key = "size" /\ (item.num \/ p.size # item.s)
    \/ item.key = "color" /\ (item.num \/ p.color # item.s)

RECURSIVE FilterLoop(_, _)
FilterLoop(p, items) ==
    IF items = <<>> THEN Returned(TRUE)
    ELSE IF ItemRaises(p, Head(items)) THEN Raised("TypeError")
    ELSE IF ItemRejects(p, Head(items)) THEN Returned(FALSE)
    ELSE FilterLoop(p, Tail(items))

matches_filters(p, f) ==
    IF f.isNone \/ f.items = <<>> THEN Returned(TRUE) ELSE FilterLoop(p, f.items)

(***************************************************************************)
(* search_site.  The environment decides what the fetch does:              *)
(*   "ok"               requests.get returns, the markup is parsed;        *)
(*   "RequestException" requests.get raises a requests.RequestException;   *)
(*   "UserAgentError"   get_user_agent().random raises (line 73, before    *)
(*                      the try block).                                    *)
(* A container is [title, price, link]: title and price are                *)
(* [present, text], link is [present, has, text].  An exception raised     *)
(* while a container is handled (lines 129-130) drops that container.      *)
(***************************************************************************)
Take(s, n) == SubSeq(s, 1, IF Len(s) < n THEN Len(s) ELSE n)

\* lines 118-124
MakeProduct(item, s, price) ==
    [name |-> Strip(item.title.text), price |-> price, website |-> s,
     url |-> clean_url([has |-> item.link.has, text |-> item.link.text], s),
     size |-> None, color |-> None, in_stock |-> TRUE]

\* lines 109-127: the products one container adds
ExtractItem(item, s, f) ==
    IF item.title.present /\ item.price.present /\ item.link.present
    THEN LET price == clean_price(Strip(item.price.text))
         IN IF PriceLess(Zero, price)
               /\ matches_filters(MakeProduct(item, s, price), f) = Returned(TRUE)
            THEN <<MakeProduct(item, s, price)>>
            ELSE <<>>
    ELSE <<>>

RECURSIVE ExtractLoop(_, _, _)
ExtractLoop(items, s, f) ==
    IF items = <<>> THEN <<>>
    ELSE ExtractItem(Head(items), s, f) \o ExtractLoop(Tail(items), s, f)

(***************************************************************************)
(* list.sort(key=lambda x: x.price): a stable sort; each element goes in   *)
(* after the elements whose price is not larger.                           *)
(***************************************************************************)
RECURSIVE InsertUnstable(_, _)
InsertUnstable(s, x) ==
    IF s = <<>> THEN <<x>>
    ELSE IF PriceLeq(x.price, Head(s).price) THEN <<x>> \o s
    ELSE <<Head(s)>> \o InsertUnstable(Tail(s), x)

RECURSIVE InsertByPrice(_, _)
InsertByPrice(s, x) ==
    IF s = <<>> THEN <<x>>
    ELSE IF PriceLess(x.price, Head(s).price) THEN <<x>> \o s
    ELSE <<Head(s)>> \o InsertByPrice(Tail(s), x)

RECURSIVE SortByPrice(_)
SortByPrice(s) ==
    IF s = <<>> THEN <<>>
    ELSE InsertByPrice(SortByPrice(SubSeq(s, 1, Len(s) - 1)), s[Len(s)])

\* a plausible slip: the five cheapest instead of the first five
CapCheapest(ps) == Take(SortByPrice(ps), PerSiteCap)

\* products[:5]
CapProducts(ps) == Take(ps, PerSiteCap)

search_site(s, outcome, m, f) ==
    IF outcome = "UserAgentError" THEN Raised("FakeUserAgentError")
    ELSE IF s \notin search_query_url_tag THEN Raised("KeyError")
    ELSE IF outcome = "RequestException" THEN Returned(<<>>)
    ELSE IF s \notin selectors THEN Returned(<<>>)
    ELSE Returned(CapProducts(ExtractLoop(m, s, f)))

(***************************************************************************)
(* Inputs: samples of markup, filters and products.                        *)
(***************************************************************************)
Elem(t) == [present |-> TRUE, text |-> t]
NoElem == [present |-> FALSE, text |-> <<>>]
Link(t) == [present |-> TRUE, has |-> TRUE, text |-> t]
LinkNoHref == [present |-> TRUE, has |-> FALSE, text |-> <<>>]
NoLink == [present |-> FALSE, has |-> FALSE, text |-> <<>>]

Listing(t, p, l) == [title |-> t, price |-> p, link |-> l]

CheapListing == Listing(Elem(<<"A">>), Elem(<<"$", "2">>), Link(<<"/", "a">>))
PriceyListing == Listing(Elem(<<"\n", " ", "B", "\t", "\n">>), Elem(<<"\n", "9", ".", "5", "0">>), Link(<<"b">>))
BrokenListing == Listing(Elem(<<"X">>), NoElem, Link(<<"/", "x">>))

FewKinds == {CheapListing, PriceyListing, BrokenListing}

AllKinds ==
    FewKinds \cup
    { Listing(Elem(<<"C">>), Elem(<<" ", "1", ",", "5", " ">>), Link(HttpScheme \o <<"c">>)),
      Listing(Elem(<<"D">>), Elem(<<"U+0663">>), LinkNoHref),
      Listing(Elem(<<"E">>), Elem(<<"3">>), Link(<<>>)),
      Listing(Elem(<<"\n", " ", "U+00A0">>), Elem(<<"4">>), Link(<<"/", "f">>)),
      Listing(Elem(<<"G">>), Elem(<<"1", ".", "2", ".", "3">>), Link(<<"/", "g">>)),
      Listing(Elem(<<"H">>), Elem(<<"N", "/", "A">>), Link(HttpsScheme \o <<"h">>)),
      Listing(Elem(<<"I">>), Elem(<<"7">>), NoLink),
      Listing(NoElem, Elem(<<"7">>), Link(<<"/", "j">>)) }

\* price texts at the edges of the floats: below the least subnormal (0.0),
\* a subnormal, above the largest float (inf), and more digits than a float
\* keeps (5.0)
Zeros(n) == [i \in 1..n |-> "0"]
TinyListing == Listing(Elem(<<"T">>), Elem(<<"0", ".">> \o Zeros(400) \o <<"1">>), Link(<<"/", "t">>))
FaintListing == Listing(Elem(<<"F">>), Elem(<<"0", ".">> \o Zeros(320) \o <<"3">>), Link(<<"/", "f">>))
HugeListing == Listing(Elem(<<"H">>), Elem(<<"1">> \o Zeros(400)), Link(<<"/", "h">>))

LongListing ==
    Listing(Elem(<<"L">>), Elem(<<"5", ".">> \o Zeros(16) \o <<"1">>), Link(<<"/", "l">>))

EdgeKinds == {CheapListing, TinyListing, FaintListing, HugeListing, LongListing}

SeqsUpTo(S, n) == UNION {[1..k -> S] : k \in 0..n}

NoFilters == [isNone |-> TRUE, items |-> <<>>]
Dict(items) == [isNone |-> FALSE, items |-> items]
\* a value that is an int, a value that is a float, and a value that is a
\* text or None
NumItem(k, n) == [key |-> k, num |-> TRUE, n |-> n, s |-> None]
FloatItem(k, f) == [key |-> k, num |-> TRUE, n |-> 0, s |-> None, f |-> f]
StrItem(k, v) == [key |-> k, num |-> FALSE, n |-> 0, s |-> v]

RecognizedKeys == {"max_price", "min_price", "size", "color"}

ItemSamples ==
    {NumItem("max_price", 2), NumItem("max_price", 5), NumItem("min_price", 5),
     StrItem("size", Some("M")), StrItem("color", None), StrItem("color", Some("None")),
     StrItem("brand", Some("acme")),
     NumItem("size", 5), StrItem("max_price", Some("5")), StrItem("min_price", None),
     FloatItem("max_price", NaN)}

\* a dict holds a key once
DistinctKeys(items) ==
    \A i, j \in 1..Len(items) : items[i].key = items[j].key => i = j

FilterSamples ==
    {NoFilters} \cup
    {Dict(items) : items \in {q \in SeqsUpTo(ItemSamples, MaxFilterKeys) : DistinctKeys(q)}}

FewFilters == {NoFilters, Dict(<<>>), Dict(<<NumItem("max_price", 5)>>),
               Dict(<<NumItem("min_price", 2), StrItem("brand", Some("acme"))>>)}

\* filters whose value has a type the comparison was not written for
OddFilters == {Dict(<<StrItem("min_price", Some("2"))>>),
               Dict(<<NumItem("max_price", 5), StrItem("min_price", None)>>),
               Dict(<<NumItem("size", 5)>>)}

ProductSamples ==
    {[name |-> <<"P">>, price |-> pr, website |-> "amazon.com", url |-> HttpsScheme \o <<"p">>,
      size |-> sz, color |-> co, in_stock |-> TRUE] :
        pr \in {Whole(2), FloatValue(<<"2", ".", "5">>), Whole(5), Whole(9)},
        sz \in {None, Some("M")}, co \in {None, Some("red")}}

SiteSamples == Registry \cup {"example.com"}
Outcomes == {"ok", "RequestException", "UserAgentError"}

(***************************************************************************)
(* The variables of a call that a specification does not make.             *)
(***************************************************************************)
Unset == [kind |-> "unset", value |-> <<>>, exc |-> None]

IdleAgg ==
    /\ fetchOf = [s \in Registry |-> "ok"]
    /\ markupOf = [s \in Registry |-> <<>>]
    /\ pc = "idle"
    /\ nsub = 0
    /\ fut = [s \in Registry |-> "none"]
    /\ futResult = [s \in Registry |-> Unset]
    /\ startCount = [s \in Registry |-> 0]
    /\ firstDone = None
    /\ collected = <<>>
    /\ all_results = <<>>
    /\ products = <<>>
    /\ exc = None
    /\ cancelIdx = 0

NoEstimate == [available_options |-> {}, has_deadline |-> FALSE,
               meets_deadline |-> FALSE, cheapest_option |-> None]

IdleShip ==
    /\ clock = 0
    /\ madeAt = 0
    /\ hasTarget = FALSE
    /\ target = 0
    /\ pcShip = "idle"
    /\ shipResult = NoEstimate

IdleSite ==
    /\ site = "amazon.com"
    /\ fetch = "ok"
    /\ markup = <<>>
    /\ pcSite = "idle"
    /\ siteResult = Unset
    /\ product = CHOOSE p \in ProductSamples : TRUE
    /\ pcFilter = "idle"
    /\ matched = Returned(FALSE)

(***************************************************************************)
(* SpecSite: one call of search_site and one call of matches_filters on    *)
(* inputs drawn from the samples.                                          *)
(***************************************************************************)
InitSite ==
    /\ IdleAgg
    /\ IdleShip
    /\ pcSite = "call"
    /\ siteResult = Returned(<<>>)
    /\ pcFilter = "call"
    /\ matched = Returned(FALSE)
    /\ \/ /\ site = "amazon.com"
          /\ fetch = "ok"
          /\ markup \in SeqsUpTo(FewKinds, MaxContainers)
          /\ filters \in {NoFilters, Dict(<<FloatItem("max_price", Whole(5))>>)}
          /\ product = CHOOSE p \in ProductSamples : TRUE
       \/ /\ site \in selectors
          /\ fetch = "ok"
          /\ markup \in SeqsUpTo(AllKinds, MaxListings)
          /\ filters \in FewFilters \ {Dict(<<>>)}
          /\ product = CHOOSE p \in ProductSamples : TRUE
       \/ /\ site \in SiteSamples
          /\ fetch \in Outcomes
          /\ markup \in {<<>>, <<CheapListing, PriceyListing>>}
          /\ filters \in FewFilters \cup OddFilters
          /\ product = CHOOSE p \in ProductSamples : TRUE
       \/ /\ site = "amazon.com"
          /\ fetch = "ok"
          /\ markup = <<CheapListing, PriceyListing>>
          /\ filters \in FilterSamples
          /\ product \in ProductSamples
       \/ /\ site = "walmart.com"
          /\ fetch = "ok"
          /\ markup \in {<<a, b>> : a \in EdgeKinds, b \in EdgeKinds}
          /\ filters \in {NoFilters, Dict(<<NumItem("max_price", 5)>>)} \cup OddFilters
          /\ product = CHOOSE p \in ProductSamples : TRUE

CallSearchSite ==
    /\ pcSite = "call"
    /\ siteResult' = search_site(site, fetch, markup, filters)
    /\ pcSite' = "done"
    /\ UNCHANGED <<site, fetch, markup, filters, product, pcFilter, matched, varsAgg, varsShip>>

CallMatchesFilters ==
    /\ pcFilter = "call"
    /\ matched' = matches_filters(product, filters)
    /\ pcFilter' = "done"
    /\ UNCHANGED <<site, fetch, markup, filters, product, pcSite, siteResult, varsAgg, varsShip>>

NextSite == CallSearchSite \/ CallMatchesFilters

SpecSite == InitSite /\ [][NextSite]_vars

(***************************************************************************)
(* search_products.  executor.map submits one call of search_site per      *)
(* site of WEBSITES, then list() reads the futures' results in the order   *)
(* of WEBSITES, waiting for each; an exception read from a future cancels  *)
(* the futures still pending and propagates; leaving the with block joins  *)
(* the pool.                                                               *)
(***************************************************************************)
max_workers == Len(WEBSITES)

AmazonMarkups ==
    { <<PriceyListing, CheapListing, Listing(Elem(<<"D">>), Elem(<<"2", ".", "0">>), Link(<<"/", "d">>))>> }

WalmartMarkups ==
    { <<PriceyListing,
        Listing(Elem(<<"E">>), Elem(<<"2", ".">> \o Zeros(16) \o <<"1">>), Link(<<"e">>)),
        BrokenListing>> }

Init ==
    /\ IdleSite
    /\ IdleShip
    /\ filters \in {NoFilters, Dict(<<FloatItem("min_price", Whole(2))>>)}
    /\ fetchOf \in [Registry -> Outcomes]
    /\ fetchOf["walmart.com"] # "UserAgentError"
    /\ fetchOf["ebay.com"] # "UserAgentError"
    /\ fetchOf["target.com"] # "UserAgentError"
    /\ fetchOf["flipkart.com"] # "UserAgentError"
    /\ markupOf \in [Registry -> AmazonMarkups \cup WalmartMarkups \cup {<<>>}]
    /\ markupOf["amazon.com"] \in AmazonMarkups
    /\ markupOf["walmart.com"] \in WalmartMarkups
    /\ \A s \in Registry \ selectors : markupOf[s] = <<>>
    /\ pc = "submit"
    /\ nsub = 0
    /\ fut = [s \in Registry |-> "none"]
    /\ futResult = [s \in Registry |-> Unset]
    /\ startCount = [s \in Registry |-> 0]
    /\ firstDone = None
    /\ collected = <<>>
    /\ all_results = <<>>
    /\ products = <<>>
    /\ exc = None
    /\ cancelIdx = 0

Running == {s \in Registry : fut[s] = "running"}

\* line 141: executor.map submits the next site's call
Submit ==
    /\ pc = "submit"
    /\ nsub < Len(WEBSITES)
    /\ fut' = [fut EXCEPT ![WEBSITES[nsub + 1]] = "pending"]
    /\ nsub' = nsub + 1
    /\ pc' = IF nsub + 1 = Len(WEBSITES) THEN "collect" ELSE "submit"
    /\ UNCHANGED <<filters, varsSite, varsShip, fetchOf, markupOf, futResult, startCount, firstDone,
                   collected, all_results, products, exc, cancelIdx>>

\* a pool thread takes a pending call
WorkerStart(s) ==
    /\ fut[s] = "pending"
    /\ Cardinality(Running) < max_workers
    /\ fut' = [fut EXCEPT ![s] = "running"]
    /\ startCount' = [startCount EXCEPT ![s] = @ + 1]
    /\ UNCHANGED <<filters, varsSite, varsShip, fetchOf, markupOf, pc, nsub, futResult, firstDone,
                   collected, all_results, products, exc, cancelIdx>>

\* line 142: the call of search_site ends, by a list or by an exception
WorkerFinish(s) ==
    /\ fut[s] = "running"
    /\ fut' = [fut EXCEPT ![s] = "finished"]
    /\ futResult' = [futResult EXCEPT ![s] = search_site(s, fetchOf[s], markupOf[s], filters)]
    /\ firstDone' = IF firstDone = None THEN Some(s) ELSE firstDone
    /\ UNCHANGED <<filters, varsSite, varsShip, fetchOf, markupOf, pc, nsub, startCount,
                   collected, all_results, products, exc, cancelIdx>>

\* a plausible slip: results taken as they complete (as_completed)
NextCompleted == {s \in Registry : \A i \in 1..Len(collected) : collected[i] # s}

\* the futures list() may read next: the next one in the order of WEBSITES
NextToCollect == {WEBSITES[Len(collected) + 1]}

\* a plausible slip: a result read without waiting for the call to end
FutureStarted(s) == fut[s] \in {"running", "finished"}

\* future.result() returns once the call has ended
FutureDone(s) == fut[s] = "finished"

\* line 141: list() reads the next future's result
Collect ==
    /\ pc = "collect"
    /\ \E s \in NextToCollect :
          /\ FutureDone(s)
          /\ collected' = Append(collected, s)
          /\ IF futResult[s].kind = "raise"
             THEN /\ exc' = futResult[s].exc
                  /\ cancelIdx' = Len(WEBSITES)
                  /\ pc' = "cancel"
                  /\ UNCHANGED all_results
             ELSE /\ all_results' = Append(all_results, futResult[s].value)
                  /\ pc' = IF Len(collected) + 1 = Len(WEBSITES) THEN "shutdown" ELSE "collect"
                  /\ UNCHANGED <<exc, cancelIdx>>
    /\ UNCHANGED <<filters, varsSite, varsShip, fetchOf, markupOf, nsub, fut, futResult, startCount,
                   firstDone, products>>

\* the result iterator's finally clause: cancel the futures not read yet,
\* last first; only a pending future can be cancelled
Cancel ==
    /\ pc = "cancel"
    /\ IF cancelIdx > Len(collected)
       THEN /\ fut' = [fut EXCEPT ![WEBSITES[cancelIdx]] =
                          IF @ = "pending" THEN "cancelled" ELSE @]
            /\ cancelIdx' = cancelIdx - 1
            /\ pc' = "cancel"
       ELSE /\ pc' = "shutdown"
            /\ UNCHANGED <<fut, cancelIdx>>
    /\ UNCHANGED <<filters, varsSite, varsShip, fetchOf, markupOf, nsub, futResult, startCount, firstDone,
                   collected, all_results, products, exc>>

\* line 140: leaving the with block waits for every call taken or pending
Shutdown ==
    /\ pc = "shutdown"
    /\ \A s \in Registry : fut[s] \notin {"pending", "running"}
    /\ pc' = IF exc = None THEN "merge" ELSE "raised"
    /\ UNCHANGED <<filters, varsSite, varsShip, fetchOf, markupOf, nsub, fut, futResult, startCount,
                   firstDone, collected, all_results, products, exc, cancelIdx>>

RECURSIVE Concat(_)
Concat(lists) ==
    IF lists = <<>> THEN <<>> ELSE Head(lists) \o Concat(Tail(lists))

\* lines 146-148
Merge ==
    /\ pc = "merge"
    /\ products' = Concat(all_results)
    /\ pc' = "sort"
    /\ UNCHANGED <<filters, varsSite, varsShip, fetchOf, markupOf, nsub, fut, futResult, startCount,
                   firstDone, collected, all_results, exc, cancelIdx>>

\* lines 150-151
SortAndReturn ==
    /\ pc = "sort"
    /\ products' = SortByPrice(products)
    /\ pc' = "returned"
    /\ UNCHANGED <<filters, varsSite, varsShip, fetchOf, markupOf, nsub, fut, futResult, startCount,
                   firstDone, collected, all_results, exc, cancelIdx>>

Next ==
    \/ Submit
    \/ \E s \in Registry : WorkerStart(s)
    \/ \E s \in Registry : WorkerFinish(s)
    \/ Collect
    \/ Cancel
    \/ Shutdown
    \/ Merge
    \/ SortAndReturn

Spec == Init /\ [][Next]_vars

(***************************************************************************)
(* Claims about search_products, checked under Spec.                       *)
(***************************************************************************)
\* what site i of WEBSITES yields on this call's inputs
SiteOutcome(i) == search_site(WEBSITES[i], fetchOf[WEBSITES[i]], markupOf[WEBSITES[i]], filters)

\* the lists of the sites whose worker did not fail, in the order of WEBSITES
RECURSIVE RegistryConcat(_)
RegistryConcat(i) ==
    IF i > Len(WEBSITES) THEN <<>>
    ELSE (IF fetchOf[WEBSITES[i]] = "ok" THEN SiteOutcome(i).value ELSE <<>>)
         \o RegistryConcat(i + 1)

Prices(l) == {l[i].price : i \in 1..Len(l)}

AtPrice(l, p) == SelectSeq(l, LAMBDA x : PriceEq(x.price, p))

SortedByPrice(l) == \A i \in 1..(Len(l) - 1) : PriceLeq(l[i].price, l[i + 1].price)

\* l is c sorted by price with ties in the order of c
StableSortOf(l, c) ==
    /\ Len(l) = Len(c)
    /\ SortedByPrice(l)
    /\ \A p \in Prices(l) \cup Prices(c) : AtPrice(l, p) = AtPrice(c, p)

\* C1: whatever sites fail, search_products returns normally, and returns
\* the price-sorted merge of the lists of the sites that did not fail (the
\* empty list when all failed).
C1_FailuresTolerated ==
    /\ pc # "raised"
    /\ pc = "returned" => StableSortOf(products, RegistryConcat(1))

Count(l, x) == Cardinality({i \in 1..Len(l) : l[i] = x})

\* C3: the returned list is a permutation of the concatenation of the
\* per-site lists, ascending by price, with equal prices in the order of the
\* concatenation.
C3_SortedStablePermutation ==
    pc = "returned" =>
        LET c == Concat(all_results)
        IN /\ Len(products) = Len(c)
           /\ \A i \in 1..Len(c) : Count(products, c[i]) = Count(c, c[i])
           /\ SortedByPrice(products)
           /\ \A p \in Prices(c) : AtPrice(products, p) = AtPrice(c, p)

\* the concatenation was not in price order and holds equal prices from two
\* sites and within one site
C3_Witness ==
    /\ pc = "returned"
    /\ ~SortedByPrice(Concat(all_results))
    /\ \E i, j \in 1..Len(products) :
          i < j /\ PriceEq(products[i].price, products[j].price)
                /\ products[i].website # products[j].website
    /\ \E i, j \in 1..Len(products) :
          i < j /\ PriceEq(products[i].price, products[j].price)
                /\ products[i].website = products[j].website

\* what holds of the pool in every execution: a site's call is started at
\* most once, a result is read only from a call that has ended, the merge
\* starts from the five lists of the five ended calls, and an exception
\* leaves the call only when no worker is left running
JoinBeforeMerge ==
    /\ \A s \in Registry : startCount[s] <= 1
    /\ Cardinality(Running) <= Len(WEBSITES)
    /\ \A i \in 1..Len(collected) : fut[collected[i]] = "finished"
    /\ pc \in {"merge", "sort", "returned"} =>
          /\ \A s \in Registry : fut[s] = "finished" /\ startCount[s] = 1
          /\ Len(all_results) = Len(WEBSITES)
          /\ \A i \in 1..Len(WEBSITES) : all_results[i] = SiteOutcome(i).value
    /\ pc = "raised" => \A s \in Registry : fut[s] \in {"finished", "cancelled"}

\* C9: in every execution exactly one worker is started per site, never more
\* than the registry size at once; the merge begins, and search_products
\* ends, only after every one of those workers has finished; no list is read
\* before its worker has completed.
C9_OneWorkerPerSiteJoined ==
    /\ \A s \in Registry : startCount[s] <= 1
    /\ Cardinality(Running) <= Len(WEBSITES)
    /\ \A i \in 1..Len(collected) : fut[collected[i]] = "finished"
    /\ pc \in {"merge", "sort", "returned", "raised"} =>
          \A s \in Registry : fut[s] = "finished" /\ startCount[s] = 1

\* C10: the returned list does not depend on the order in which the workers
\* complete: the per-site lists are concatenated in the order of WEBSITES,
\* so equal prices come out in that order.
C10_RegistryOrderMerge ==
    pc = "returned" =>
        LET c == RegistryConcat(1)
        IN /\ Len(products) = Len(c)
           /\ \A p \in Prices(c) : AtPrice(products, p) = AtPrice(c, p)
           /\ Concat(all_results) = c

\* a later site finished first and both sites hold a product at one price
C10_Witness ==
    /\ pc = "returned"
    /\ firstDone = Some("walmart.com")
    /\ \E i, j \in 1..Len(products) :
          /\ i < j
          /\ PriceEq(products[i].price, products[j].price)
          /\ products[i].website = "amazon.com"
          /\ products[j].website = "walmart.com"

(***************************************************************************)
(* estimate_shipping.  Times are clock ticks; costs are cents.  The result *)
(* holds the names of the available options; has_deadline tells whether    *)
(* the meets_deadline and cheapest_option keys are present.                 *)
(***************************************************************************)
shipping_options ==
    [standard |-> [cost |-> 599, days |-> 5, carrier |-> "USPS"],
     expedited |-> [cost |-> 1299, days |-> 2, carrier |-> "FedEx"],
     overnight |-> [cost |-> 2499, days |-> 1, carrier |-> "UPS"]]

\* timedelta.days: whole days, rounded down (also below zero)
timedelta_days(delta) == delta \div TicksPerDay

\* a plausible slip: < in place of <=
FitsStrictly(option, days_needed) == option.days < days_needed

\* line 177
Fits(option, days_needed) == option.days <= days_needed

\* line 182: min(..., key=cost)
Cheapest(options) ==
    CHOOSE k \in options :
        \A o \in options : shipping_options[k].cost <= shipping_options[o].cost

estimate_shipping(has, target_date, now) ==
    IF has
    THEN LET days_needed == timedelta_days(target_date - now)
             available_options ==
                 {k \in DOMAIN shipping_options : Fits(shipping_options[k], days_needed)}
         IN [available_options |-> available_options,
             has_deadline |-> TRUE,
             meets_deadline |-> Cardinality(available_options) > 0,
             cheapest_option |-> IF available_options # {}
                                 THEN Some(Cheapest(available_options)) ELSE None]
    ELSE [available_options |-> DOMAIN shipping_options, has_deadline |-> FALSE,
          meets_deadline |-> FALSE, cheapest_option |-> None]

InitShip ==
    /\ IdleSite
    /\ IdleAgg
    /\ filters = NoFilters
    /\ clock = 0
    /\ madeAt = 0
    /\ \/ hasTarget = FALSE /\ target = 0
       \/ /\ hasTarget = TRUE
          /\ target \in (0 - MaxTargetDays * TicksPerDay)..(MaxTargetDays * TicksPerDay)
    /\ pcShip = "called"
    /\ shipResult = NoEstimate

\* time passes between the caller's datetime.now() and the estimator's
Tick ==
    /\ pcShip = "called"
    /\ clock - madeAt < MaxElapsed
    /\ clock' = clock + 1
    /\ UNCHANGED <<filters, varsSite, varsAgg, madeAt, hasTarget, target, pcShip, shipResult>>

\* lines 173-185, with datetime.now() read at line 174
EstimateShipping ==
    /\ pcShip = "called"
    /\ shipResult' = estimate_shipping(hasTarget, target, clock)
    /\ pcShip' = "done"
    /\ UNCHANGED <<filters, varsSite, varsAgg, clock, madeAt, hasTarget, target>>

NextShip == Tick \/ EstimateShipping

SpecShip == InitShip /\ [][NextShip]_vars

(***************************************************************************)
(* Claims about estimate_shipping, checked under SpecShip.                 *)
(***************************************************************************)
\* C5: with a target date, available_options is the set of options whose
\* transit days are at most the time remaining from now to the target,
\* meets_deadline holds iff that set is non-empty, cheapest_option is its
\* lowest-cost member or none; for a target in the past no option qualifies.
C5_OptionsFitRemainingTime ==
    (pcShip = "done" /\ hasTarget) =>
        LET fitting == {k \in DOMAIN shipping_options :
                            shipping_options[k].days * TicksPerDay <= target - clock}
        IN /\ shipResult.available_options = fitting
           /\ shipResult.meets_deadline <=> fitting # {}
           /\ fitting = {} => shipResult.cheapest_option = None
           /\ fitting # {} =>
                 /\ shipResult.cheapest_option # None
                 /\ shipResult.cheapest_option.val \in fitting
                 /\ \A k \in fitting :
                       shipping_options[shipResult.cheapest_option.val].cost
                           <= shipping_options[k].cost
           /\ target < clock =>
                 shipResult.available_options = {} /\ ~shipResult.meets_deadline

\* time has passed since the target was made and between two and three
\* days remain: expedited and overnight fit, the cheaper one is reported
C5_Witness ==
    /\ pcShip = "done"
    /\ hasTarget
    /\ clock > madeAt
    /\ target - clock > 2 * TicksPerDay
    /\ target - clock < 3 * TicksPerDay
    /\ shipResult.available_options = {"expedited", "overnight"}
    /\ shipResult.cheapest_option = Some("expedited")

\* C6: with target_date made as now + 1 day, however many ticks pass before
\* the estimator reads the clock, exactly overnight is available, the
\* deadline is met and overnight is the cheapest option.
C6_NowPlusOneDayOvernight ==
    (pcShip = "done" /\ hasTarget /\ target = madeAt + TicksPerDay) =>
        /\ shipResult.available_options = {"overnight"}
        /\ shipResult.meets_deadline
        /\ shipResult.cheapest_option = Some("overnight")

(***************************************************************************)
(* Claims about search_site and matches_filters, checked under SpecSite.   *)
(***************************************************************************)
SiteReturned == pcSite = "done" /\ siteResult.kind = "return"

IsAbsolute(u) == StartsWith(u, HttpScheme) \/ StartsWith(u, HttpsScheme)

\* C2: every Product that search_site emits has a name that is non-empty
\* after trimming, a price greater than 0, a website of the registry and a
\* non-empty absolute URL.
C2_EmittedProductsComplete ==
    SiteReturned =>
        \A i \in 1..Len(siteResult.value) :
            LET p == siteResult.value[i]
            IN /\ Strip(p.name) # <<>>
               /\ PriceLess(Zero, p.price)
               /\ p.website \in Registry
               /\ p.url # <<>>
               /\ IsAbsolute(p.url)

\* the containers of the markup that yield a product passing the filters
Qualifying == {i \in 1..Len(markup) : ExtractItem(markup[i], site, filters) # <<>>}

\* the k-th container of Q in document order
Kth(Q, k) == CHOOSE i \in Q : Cardinality({j \in Q : j <= i}) = k

Min(a, b) == IF a < b THEN a ELSE b

\* C4: search_site returns at most 5 products, and they are the first 5, in
\* document order, of the listings that were extracted and passed the
\* filters; all of them when fewer than 5 qualify.
C4_FirstFiveInDocumentOrder ==
    SiteReturned =>
        /\ Len(siteResult.value) <= 5
        /\ (site \in selectors /\ fetch = "ok") =>
              LET Q == Qualifying
              IN /\ Len(siteResult.value) = Min(Cardinality(Q), 5)
                 /\ \A k \in 1..Len(siteResult.value) :
                       siteResult.value[k] = ExtractItem(markup[Kth(Q, k)], site, filters)[1]

\* more than 5 listings qualified, and a dropped one is cheaper than a
\* returned one
C4_Witness ==
    /\ SiteReturned
    /\ Len(siteResult.value) = 5
    /\ LET Q == Qualifying
       IN /\ Cardinality(Q) > 5
          /\ \E i \in Q, k \in 1..5 :
                /\ i > Kth(Q, 5)
                /\ PriceLess(ExtractItem(markup[i], site, filters)[1].price,
                             siteResult.value[k].price)

\* C7: a site with no search-URL template or no extraction rules yields an
\* empty list and no error (stated for the calls whose request header was
\* built).
C7_UnknownSiteReturnsEmpty ==
    (pcSite = "done" /\ fetch # "UserAgentError"
        /\ (site \notin search_query_url_tag \/ site \notin selectors))
    => siteResult = Returned(<<>>)

\* the constraint of one filter item, as the specification words it:
\* price <= max_price, price >= min_price, size and color equal to the
\* filter's; a price is within no bound that is not a number (nor within
\* NaN), and no size or color is equal to a number
Satisfies(p, item) ==
    /\ item.key = "max_price" => item.num /\ PriceLeq(p.price, Bound(item))
    /\ item.key = "min_price" => item.num /\ PriceLeq(Bound(item), p.price)
    /\ item.key = "size" => ~item.num /\ p.size = item.s
    /\ item.key = "color" => ~item.num /\ p.color = item.s

OnlyRecognized(f) ==
    [isNone |-> f.isNone,
     items |-> SelectSeq(f.items, LAMBDA it : it.key \in RecognizedKeys)]

\* C8: matches_filters returns true iff the product satisfies every
\* recognized constraint present (price <= max_price, price >= min_price,
\* size and color equal to the filter's); other keys never change the
\* outcome; an absent or empty mapping passes every product, and a search
\* with empty filters returns what a search with no filters returns.
C8_MatchesFiltersIffAllRecognized ==
    /\ pcFilter = "done" =>
          /\ matched = Returned(TRUE)
                <=> \A i \in 1..Len(filters.items) :
                       filters.items[i].key \in RecognizedKeys
                           => Satisfies(product, filters.items[i])
          /\ matched = matches_filters(product, OnlyRecognized(filters))
          /\ filters.items = <<>> => matched = Returned(TRUE)
    /\ (pcSite = "done" /\ filters.items = <<>>) =>
          siteResult = search_site(site, fetch, markup, NoFilters)

====
